---- MODULE Spec2Model ----
(***************************************************************************)
(* Coherent alias sampling state preparation                               *)
(* (qualtran/bloqs/state_preparation.py, StatePreparationAliasSampling).   *)
(*                                                                         *)
(* The model covers the factory from_lcu_probs, the attrs constructor, the *)
(* derived bit sizes, the junk registers, the value-equality protocol and  *)
(* the generator decompose_from_registers, together with the execution of  *)
(* the yielded operations on one computational-basis branch.               *)
(*                                                                         *)
(* Arrays (alt, keep, probability vectors) are functions over 0..L-1, as   *)
(* the source indexes them.  Probabilities are the rationals k/Den and     *)
(* epsilon is a rational <<numerator, denominator>>.                       *)
(***************************************************************************)
EXTENDS Integers, Sequences, FiniteSets, TLC

\* ------------------------------------------------------------------ bounds
\* Longest probability vector handed to from_lcu_probs.
MaxL == 3
\* Probabilities are multiples of 1/Den.
Den == 10
\* Largest number of outcomes of a directly constructed sampler.
MaxCtorL == 2
\* Largest precision mu of a directly constructed sampler.
MaxCtorMu == 1
\* The "sane upper bound" on mu of spec section 4.1.
MuLimit == 4
\* Longest one-hot probability vector [1, 0, ..., 0] handed to the factory.
MaxLong == 9

\* The epsilons a caller passes: two non-positive ones, 1/2, 1/8 and 1/32.
EpsInputs == { <<-1, 4>>, <<0, 1>>, <<1, 2>>, <<1, 8>>, <<1, 32>> }

None == [none |-> TRUE]

\* ----------------------------------------------------------- integer helpers
RECURSIVE BitLen(_)
BitLen(n) == IF n = 0 THEN 0 ELSE 1 + BitLen(n \div 2)

\* int.bit_length(): the number of bits of |n|.
bit_length(n) == BitLen(IF n < 0 THEN -n ELSE n)

\* Bitwise exclusive or of two naturals.
RECURSIVE BitXor(_, _)
BitXor(a, b) ==
    IF a = 0 THEN b
    ELSE IF b = 0 THEN a
    ELSE (((a % 2) + (b % 2)) % 2) + 2 * BitXor(a \div 2, b \div 2)

\* len() of an array.
Length(arr) == Cardinality(DOMAIN arr)

RECURSIVE SumTo(_, _)
SumTo(f, k) == IF k = 0 THEN 0 ELSE f[k - 1] + SumTo(f, k - 1)

\* sum() of an array.
SumAll(f) == SumTo(f, Length(f))

\* All arrays of length n over the set S.
Arrays(n, S) == [0 .. n - 1 -> S]

\* ------------------------------------------------- alias table construction
\* qualtran.linalg.lcu_util.preprocess_lcu_coefficients_for_reversible_sampling
\* is imported by the module but is not part of the sources at hand.  It is
\* modelled after spec sections 4.1 and 7: the validation and error taxonomy
\* as stated there, and, for the construction the spec leaves open (section
\* 9), the discretisation of the cumulative sums followed by a two-pass
\* needy/donor redistribution, which meets the conservation and bounded-error
\* contracts.

\* Rejection of malformed input: empty, a negative entry, or a sum off 1.
InvalidDistribution(p) ==
    \/ Length(p) = 0
    \/ \E i \in DOMAIN p : p[i] < 0
    \/ SumAll(p) # Den

\* Smallest m >= from with L * 2^m * epsilon >= 1, i.e. one unit 1/(L*2^m)
\* of the fixed-point grid is at most epsilon.
RECURSIVE ImpliedMu(_, _, _)
ImpliedMu(L, eps, from) ==
    IF L * (2 ^ from) * eps[1] >= eps[2] THEN from ELSE ImpliedMu(L, eps, from + 1)

\* Rejection of an epsilon that is not positive or implies an unusable mu.
PrecisionError(p, eps) ==
    \/ eps[1] <= 0
    \/ ImpliedMu(Length(p), eps, 0) < 1
    \/ ImpliedMu(Length(p), eps, 0) > MuLimit

\* The probabilities rounded to multiples of 1/(L * 2^mu): each cumulative
\* sum is rounded half up and the numerators are the successive differences.
Discretize(p, mu) ==
    LET B == Length(p) * (2 ^ mu)
        dc(k) == (2 * SumTo(p, k) * B + Den) \div (2 * Den)
    IN  [i \in DOMAIN p |-> dc(i + 1) - dc(i)]

RECURSIVE FindDonor(_, _, _)
FindDonor(d, pos, target) ==
    IF d[pos] <= target THEN FindDonor(d, pos + 1, target) ELSE pos

\* One visit of index i: a needy bucket (below target) is topped up from the
\* next bucket above target; it keeps its own weight and aliases the donor.
Visit(st, i, target) ==
    IF st.d[i] >= target THEN st
    ELSE LET donor == FindDonor(st.d, st.donor, target)
             donated == target - st.d[i]
         IN  [d     |-> [st.d EXCEPT ![donor] = @ - donated, ![i] = target],
              alt   |-> [st.alt EXCEPT ![i] = donor],
              keep  |-> [st.keep EXCEPT ![i] = target - donated],
              donor |-> donor]

RECURSIVE Scan(_, _, _, _)
Scan(st, t, n, target) ==
    IF t = 2 * n THEN st ELSE Scan(Visit(st, t % n, target), t + 1, n, target)

\* Two passes over the buckets; untouched buckets alias themselves, keep 0.
RouletteTables(disc) ==
    LET n == Length(disc)
    IN  Scan([d |-> disc, alt |-> [i \in DOMAIN disc |-> i],
              keep |-> [i \in DOMAIN disc |-> 0], donor |-> 0],
             0, n, SumAll(disc) \div n)

\* (alt, keep, mu) for a probability vector and epsilon, or the error raised.
preprocess_lcu_coefficients_for_reversible_sampling(p, eps) ==
    IF InvalidDistribution(p) THEN
        [raised |-> "InvalidDistribution", alt |-> <<>>, keep |-> <<>>, mu |-> 0]
    ELSE IF PrecisionError(p, eps) THEN
        [raised |-> "PrecisionError", alt |-> <<>>, keep |-> <<>>, mu |-> 0]
    ELSE LET mu == ImpliedMu(Length(p), eps, 0)
             t  == RouletteTables(Discretize(p, mu))
         IN  [raised |-> "none", alt |-> t.alt, keep |-> t.keep, mu |-> mu]

\* ------------------------------------------------------- the sampler object
SelectionRegister(name, bitsize, iteration_length) ==
    [name |-> name, bitsize |-> bitsize, iteration_length |-> iteration_length]

Register(name, bitsize) == [name |-> name, bitsize |-> bitsize]

\* A constructor argument is a single register or an iterable of registers.
OneRegister(r) == [single |-> TRUE, regs |-> <<r>>]
ManyRegisters(rs) == [single |-> FALSE, regs |-> rs]

\* The converter of the selection_registers field: (v,) or tuple(v).
selection_registers_converter(v) == IF v.single THEN <<v.regs[1]>> ELSE v.regs

\* The attrs-generated constructor of the frozen class.
StatePreparationAliasSampling(selection_registers, alt, keep, mu) ==
    [selection_registers |-> selection_registers_converter(selection_registers),
     alt |-> alt, keep |-> keep, mu |-> mu]

\* from_lcu_probs with N.bit_length() in place of (N - 1).bit_length().
from_lcu_probs_width_of_N(lcu_probabilities, probability_epsilon) ==
    LET t == preprocess_lcu_coefficients_for_reversible_sampling(
                 lcu_probabilities, probability_epsilon)
        N == Length(lcu_probabilities)
    IN  IF t.raised # "none" THEN [raised |-> t.raised, value |-> None]
        ELSE [raised |-> "none",
              value |-> StatePreparationAliasSampling(
                  OneRegister(SelectionRegister("selection", bit_length(N), N)),
                  t.alt, t.keep, t.mu)]

\* from_lcu_probs passing the two tables in each other's place.
from_lcu_probs_tables_swapped(lcu_probabilities, probability_epsilon) ==
    LET t == preprocess_lcu_coefficients_for_reversible_sampling(
                 lcu_probabilities, probability_epsilon)
        N == Length(lcu_probabilities)
    IN  IF t.raised # "none" THEN [raised |-> t.raised, value |-> None]
        ELSE [raised |-> "none",
              value |-> StatePreparationAliasSampling(
                  OneRegister(SelectionRegister("selection", bit_length(N - 1), N)),
                  t.keep, t.alt, t.mu)]

\* from_lcu_probs storing 2 ** mu - keep, the alias weights, as keep.
from_lcu_probs_keep_complemented(lcu_probabilities, probability_epsilon) ==
    LET t == preprocess_lcu_coefficients_for_reversible_sampling(
                 lcu_probabilities, probability_epsilon)
        N == Length(lcu_probabilities)
    IN  IF t.raised # "none" THEN [raised |-> t.raised, value |-> None]
        ELSE [raised |-> "none",
              value |-> StatePreparationAliasSampling(
                  OneRegister(SelectionRegister("selection", bit_length(N - 1), N)),
                  t.alt, [i \in DOMAIN t.keep |-> (2 ^ t.mu) - t.keep[i]], t.mu)]

\* from_lcu_probs storing mu - 1 as the precision.
from_lcu_probs_mu_off_by_one(lcu_probabilities, probability_epsilon) ==
    LET t == preprocess_lcu_coefficients_for_reversible_sampling(
                 lcu_probabilities, probability_epsilon)
        N == Length(lcu_probabilities)
    IN  IF t.raised # "none" THEN [raised |-> t.raised, value |-> None]
        ELSE [raised |-> "none",
              value |-> StatePreparationAliasSampling(
                  OneRegister(SelectionRegister("selection", bit_length(N - 1), N)),
                  t.alt, t.keep, t.mu - 1)]

\* from_lcu_probs catching the builder's error and returning a sampler built
\* from the empty tables.
from_lcu_probs_swallowing(lcu_probabilities, probability_epsilon) ==
    LET t == preprocess_lcu_coefficients_for_reversible_sampling(
                 lcu_probabilities, probability_epsilon)
        N == Length(lcu_probabilities)
    IN  [raised |-> "none",
         value |-> StatePreparationAliasSampling(
             OneRegister(SelectionRegister("selection", bit_length(N - 1), N)),
             t.alt, t.keep, t.mu)]

\* The factory: the builder's error propagates (nothing is caught and the
\* constructor is not reached); otherwise the sampler is constructed from the
\* tables and a selection register of (N - 1).bit_length() bits.
from_lcu_probs(lcu_probabilities, probability_epsilon) ==
    LET t == preprocess_lcu_coefficients_for_reversible_sampling(
                 lcu_probabilities, probability_epsilon)
        N == Length(lcu_probabilities)
    IN  IF t.raised # "none" THEN [raised |-> t.raised, value |-> None]
        ELSE [raised |-> "none",
              value |-> StatePreparationAliasSampling(
                  OneRegister(SelectionRegister("selection", bit_length(N - 1), N)),
                  t.alt, t.keep, t.mu)]

\* qualtran._infra.gate_with_registers.total_bits: the registers' bits summed.
RECURSIVE total_bits(_)
total_bits(registers) ==
    IF registers = <<>> THEN 0
    ELSE Head(registers).bitsize + total_bits(Tail(registers))

sigma_mu_bitsize(self) == self.mu

alternates_bitsize(self) == total_bits(self.selection_registers)

keep_bitsize(self) == self.mu

selection_bitsize(self) == total_bits(self.selection_registers)

\* Signature.build(**registers): one register per keyword, in keyword order
\* (spec section 4.2: the four junk descriptors).
Signature_build(kwargs) == [k \in DOMAIN kwargs |-> Register(kwargs[k][1], kwargs[k][2])]

\* junk_registers listing the sigma_mu register with the selection width too.
junk_registers_sigma_as_wide_as_selection(self) ==
    Signature_build(<< <<"sigma_mu", sigma_mu_bitsize(self) + selection_bitsize(self)>>,
                       <<"alt", alternates_bitsize(self)>>,
                       <<"keep", keep_bitsize(self)>>,
                       <<"less_than_equal", 1>> >>)

junk_registers(self) ==
    Signature_build(<< <<"sigma_mu", sigma_mu_bitsize(self)>>,
                       <<"alt", alternates_bitsize(self)>>,
                       <<"keep", keep_bitsize(self)>>,
                       <<"less_than_equal", 1>> >>)

\* _value_equality_values_ leaving mu out.
value_equality_values_without_mu(self) ==
    <<self.selection_registers, self.alt, self.keep>>

\* _value_equality_values_: the selection registers, the flattened tables, mu.
value_equality_values(self) ==
    <<self.selection_registers, self.alt, self.keep, self.mu>>

\* __eq__ as cirq.value_equality defines it: same class, equal values.
SamplerEq(a, b) == value_equality_values(a) = value_equality_values(b)

\* hash(a) == hash(b), with __hash__ as cirq.value_equality defines it:
\* hash((cls, values)).  Equal value tuples hash equal.  For unequal tuples
\* the integer hashes may or may not coincide (the value of hash() depends on
\* the interpreter build), so both outcomes are possible.
HashEqOutcomes(a, b) ==
    IF value_equality_values(a) = value_equality_values(b) THEN {TRUE} ELSE BOOLEAN

\* ----------------------------------------------------------- decomposition
RegNames == {"selection", "sigma_mu", "alt", "keep", "less_than_equal"}

\* An array of qubits: the caller's register it was taken from and its
\* length.  All arrays of no qubits are the same empty array.
EmptyQubits == [reg |-> "", n |-> 0]

Qubits(name, n) == IF n = 0 THEN EmptyQubits ELSE [reg |-> name, n |-> n]

\* quregs[name], defined when the name is bound.
Bound(quregs, name) == Qubits(name, quregs[name])

\* quregs.get(name, ()).
Get(quregs, name) == IF name \in DOMAIN quregs THEN Bound(quregs, name) ELSE EmptyQubits

GateOp(gate, params, on) == [gate |-> gate, params |-> params, on |-> on]

\* Lines 159-160: the subscripted names must be bound; the other two are
\* read with a default.
RaisesKeyError(quregs) ==
    \E name \in {"selection", "less_than_equal", "alt"} : name \notin DOMAIN quregs

\* The yields of the generator, in source order (lines 162, 163, 169, 170, 171).
YieldPrepareUniformSuperposition(self, quregs) ==
    GateOp("PrepareUniformSuperposition",
           <<self.selection_registers[1].iteration_length>>,
           <<Bound(quregs, "selection")>>)

YieldH(self, quregs) == GateOp("H", <<>>, <<Get(quregs, "sigma_mu")>>)

YieldQROM(self, quregs) ==
    GateOp("QROM",
           << <<self.alt, self.keep>>, <<selection_bitsize(self)>>,
              <<alternates_bitsize(self), keep_bitsize(self)>> >>,
           <<Bound(quregs, "selection"), Bound(quregs, "alt"), Get(quregs, "keep")>>)

\* The comparison with its operands exchanged: sigma_mu <= keep.
YieldLessThanEqual_operands_exchanged(self, quregs) ==
    GateOp("LessThanEqual", <<self.mu, self.mu>>,
           <<Get(quregs, "sigma_mu"), Get(quregs, "keep"),
             Bound(quregs, "less_than_equal")>>)

YieldLessThanEqual(self, quregs) ==
    GateOp("LessThanEqual", <<self.mu, self.mu>>,
           <<Get(quregs, "keep"), Get(quregs, "sigma_mu"),
             Bound(quregs, "less_than_equal")>>)

YieldCSwap(self, quregs) ==
    GateOp("CSwap", <<Bound(quregs, "alt").n>>,
           <<Bound(quregs, "less_than_equal"), Bound(quregs, "alt"),
             Bound(quregs, "selection")>>)

\* The generator body with the table lookup placed after the comparison.
decompose_from_registers_lookup_late(self, quregs) ==
    << YieldPrepareUniformSuperposition(self, quregs), YieldH(self, quregs),
       YieldLessThanEqual(self, quregs), YieldQROM(self, quregs),
       YieldCSwap(self, quregs) >>

\* The operations the generator yields, in order.
decompose_from_registers(self, quregs) ==
    << YieldPrepareUniformSuperposition(self, quregs), YieldH(self, quregs),
       YieldQROM(self, quregs), YieldLessThanEqual(self, quregs),
       YieldCSwap(self, quregs) >>

RECURSIVE SumQubits(_)
SumQubits(on) == IF on = <<>> THEN 0 ELSE Head(on).n + SumQubits(Tail(on))

\* Whether the collaborator accepts the qubits it is applied to (spec section
\* 6: each binds registers of its declared widths; section 7: SizeMismatch).
Accepts(op) ==
    CASE op.gate = "PrepareUniformSuperposition" ->
             op.on[1].n = bit_length(op.params[1] - 1)
      [] op.gate = "H" -> TRUE
      [] op.gate = "QROM" ->
             /\ op.on[1].n = op.params[2][1]
             /\ op.on[2].n = op.params[3][1]
             /\ op.on[3].n = op.params[3][2]
      [] op.gate = "LessThanEqual" ->
             SumQubits(op.on) = op.params[1] + op.params[2] + 1
      [] op.gate = "CSwap" ->
             /\ op.on[1].n = 1
             /\ op.on[2].n = op.params[1]
             /\ op.on[3].n = op.params[1]

\* --------------------------------------- execution on one basis-state branch
\* The value held by an array of qubits; the empty array holds 0.
Val(regs, arr) == IF arr.n = 0 THEN 0 ELSE regs[arr.reg]

\* Storing into an array of qubits keeps the low-order arr.n bits.
Put(regs, arr, v) ==
    IF arr.n = 0 THEN regs ELSE [regs EXCEPT ![arr.reg] = v % (2 ^ arr.n)]

Baseline == [name \in RegNames |-> 0]

\* UniformSuperposition(N): the branch with the register holding l < N.
ExecPrepareUniformSuperposition(op, regs, l) == Put(regs, op.on[1], l)

\* H on each qubit of a zeroed register: the branch with the register holding s.
ExecH(op, regs, s) == Put(regs, op.on[1], s)

\* TableLookup: table[k][address] is XOR-ed into target k.
ExecQROM(op, regs) ==
    LET a  == Val(regs, op.on[1])
        r1 == Put(regs, op.on[2], BitXor(Val(regs, op.on[2]), op.params[1][1][a]))
    IN  Put(r1, op.on[3], BitXor(Val(r1, op.on[3]), op.params[1][2][a]))

\* Comparator: (first <= second) is XOR-ed into the one-qubit target.
ExecLessThanEqual(op, regs) ==
    Put(regs, op.on[3],
        BitXor(Val(regs, op.on[3]),
               IF Val(regs, op.on[1]) <= Val(regs, op.on[2]) THEN 1 ELSE 0))

\* ConditionalExchange: the two data registers are exchanged iff control = 1.
ExecCSwap(op, regs) ==
    IF Val(regs, op.on[1]) = 1
    THEN Put(Put(regs, op.on[2], Val(regs, op.on[3])), op.on[3], Val(regs, op.on[2]))
    ELSE regs

\* One operation applied on the branch (l, s).
Exec(op, regs, l, s) ==
    CASE op.gate = "PrepareUniformSuperposition" -> ExecPrepareUniformSuperposition(op, regs, l)
      [] op.gate = "H" -> ExecH(op, regs, s)
      [] op.gate = "QROM" -> ExecQROM(op, regs)
      [] op.gate = "LessThanEqual" -> ExecLessThanEqual(op, regs)
      [] op.gate = "CSwap" -> ExecCSwap(op, regs)

RECURSIVE RunOps(_, _, _, _)
RunOps(oplist, regs, l, s) ==
    IF oplist = <<>> THEN regs
    ELSE RunOps(Tail(oplist), Exec(Head(oplist), regs, l, s), l, s)

\* ------------------------------------------------------------ state machine
VARIABLES
    pc,       \* "idle", "failed", "built", "paired", "compared",
              \* "decomposing", "raised", "exhausted", "running", "ran"
    call,     \* the arguments of the from_lcu_probs call, or None
    sampler,  \* the sampler constructed, or None
    raised,   \* the exception that reached the caller, or "none"
    other,    \* a second sampler and how it was made, or None
    cmp,      \* the results of == and of comparing the hashes, or None
    quregs,   \* the caller's register bindings: name -> number of qubits
    ops,      \* the operations the generator has yielded so far
    regs,     \* the register contents of the branch being executed
    ip,       \* the number of yielded operations executed on the branch
    branch    \* the branch: the outcomes l and s of the two uniform steps

vars == <<pc, call, sampler, raised, other, cmp, quregs, ops, regs, ip, branch>>

\* Probability vectors: all of length at most MaxL with entries -1/Den ..
\* (Den+1)/Den, and the one-hot vectors up to length MaxLong.
ProbInputs ==
    (UNION { Arrays(n, -1 .. Den + 1) : n \in 0 .. MaxL })
      \cup { [i \in 0 .. n - 1 |-> IF i = 0 THEN Den ELSE 0] : n \in MaxL + 1 .. MaxLong }

\* The bindings a host allocates from the sampler's signature.
Declared(self) ==
    LET junk == junk_registers(self)
    IN  [name \in RegNames |->
            IF name = "selection" THEN selection_bitsize(self)
            ELSE junk[CHOOSE k \in DOMAIN junk : junk[k].name = name].bitsize]

\* The declared bindings, and those with one name missing or one register a
\* qubit too long.
QuregsInputs(self) ==
    LET D == Declared(self)
    IN  {D} \cup { [n \in RegNames \ {name} |-> D[n]] : name \in RegNames }
            \cup { [D EXCEPT ![name] = @ + 1] : name \in RegNames }

Init ==
    /\ pc = "idle"
    /\ call = None
    /\ sampler = None
    /\ raised = "none"
    /\ other = None
    /\ cmp = None
    /\ quregs = <<>>
    /\ ops = <<>>
    /\ regs = Baseline
    /\ ip = 0
    /\ branch = [l |-> 0, s |-> 0]

\* StatePreparationAliasSampling.from_lcu_probs(p, probability_epsilon=eps).
CallFromLcuProbs ==
    /\ pc = "idle"
    /\ \E p \in ProbInputs, eps \in EpsInputs :
          LET r == from_lcu_probs(p, eps)
          IN  /\ call' = [p |-> p, eps |-> eps]
              /\ sampler' = r.value
              /\ raised' = r.raised
              /\ pc' = IF r.raised = "none" THEN "built" ELSE "failed"
    /\ UNCHANGED <<other, cmp, quregs, ops, regs, ip, branch>>

\* StatePreparationAliasSampling(selection_registers=..., alt=..., keep=..., mu=...)
\* with tables in the ranges alt[i] in [0, L), keep[i] in [0, 2^mu].
CallConstructor ==
    /\ pc = "idle"
    /\ \E L \in 1 .. MaxCtorL, mu \in 0 .. MaxCtorMu :
          \E alt \in Arrays(L, 0 .. L - 1), keep \in Arrays(L, 0 .. 2 ^ mu) :
             sampler' = StatePreparationAliasSampling(
                            OneRegister(SelectionRegister("selection", bit_length(L - 1), L)),
                            alt, keep, mu)
    /\ pc' = "built"
    /\ UNCHANGED <<call, raised, other, cmp, quregs, ops, regs, ip, branch>>

\* A second call of the factory with the same arguments.
RepeatFactoryCall ==
    /\ pc = "built"
    /\ call # None
    /\ other' = [how |-> "repeat", obj |-> from_lcu_probs(call.p, call.eps).value]
    /\ pc' = "paired"
    /\ UNCHANGED <<call, sampler, raised, cmp, quregs, ops, regs, ip, branch>>

\* A second sampler constructed directly from the same field values, the
\* selection register given alone or inside a tuple.
ConstructAgain ==
    /\ pc = "built"
    /\ \E single \in BOOLEAN :
          other' = [how |-> "again",
                    obj |-> StatePreparationAliasSampling(
                        IF single THEN OneRegister(sampler.selection_registers[1])
                                  ELSE ManyRegisters(sampler.selection_registers),
                        sampler.alt, sampler.keep, sampler.mu)]
    /\ pc' = "paired"
    /\ UNCHANGED <<call, sampler, raised, cmp, quregs, ops, regs, ip, branch>>

\* A second sampler with one entry of alt, one entry of keep, mu, or the
\* selection descriptor replaced.
ConstructVariant ==
    /\ pc = "built"
    /\ LET L == Length(sampler.alt)
           r == sampler.selection_registers[1]
           same == ManyRegisters(sampler.selection_registers)
       IN  \/ \E i \in DOMAIN sampler.alt :
                 other' = [how |-> "variant",
                           obj |-> StatePreparationAliasSampling(same,
                               [sampler.alt EXCEPT ![i] = (@ + 1) % L],
                               sampler.keep, sampler.mu)]
           \/ \E i \in DOMAIN sampler.keep :
                 other' = [how |-> "variant",
                           obj |-> StatePreparationAliasSampling(same, sampler.alt,
                               [sampler.keep EXCEPT ![i] = (@ + 1) % (2 ^ sampler.mu)],
                               sampler.mu)]
           \/ other' = [how |-> "variant",
                        obj |-> StatePreparationAliasSampling(same, sampler.alt,
                                    sampler.keep, sampler.mu + 1)]
           \/ \E rr \in { SelectionRegister(r.name, r.bitsize, r.iteration_length + 1),
                          SelectionRegister(r.name, r.bitsize + 1, r.iteration_length) } :
                 other' = [how |-> "variant",
                           obj |-> StatePreparationAliasSampling(OneRegister(rr),
                                       sampler.alt, sampler.keep, sampler.mu)]
    /\ pc' = "paired"
    /\ UNCHANGED <<call, sampler, raised, cmp, quregs, ops, regs, ip, branch>>

\* sampler == other, and hash(sampler) == hash(other).
Compare ==
    /\ pc = "paired"
    /\ \E h \in HashEqOutcomes(sampler, other.obj) :
          cmp' = [eq |-> SamplerEq(sampler, other.obj), hash_eq |-> h]
    /\ pc' = "compared"
    /\ UNCHANGED <<call, sampler, raised, other, quregs, ops, regs, ip, branch>>

\* decompose_from_registers(context=..., **q): the generator is created; no
\* line of its body has run yet.
BeginDecompose ==
    /\ pc = "built"
    /\ \E q \in QuregsInputs(sampler) : quregs' = q
    /\ ops' = <<>>
    /\ pc' = "decomposing"
    /\ UNCHANGED <<call, sampler, raised, other, cmp, regs, ip, branch>>

\* The generator runs up to its next yield: the operation is built and
\* applied to the qubits, which its gate may refuse.
YieldOrRaise(op) ==
    IF Accepts(op)
    THEN /\ ops' = Append(ops, op)
         /\ UNCHANGED <<pc, raised>>
    ELSE /\ raised' = "SizeMismatch"
         /\ pc' = "raised"
         /\ UNCHANGED ops

\* Step1 with the registers looked up only when first used: selection before
\* the first yield, the others after it.
Step1_lookup_on_first_use ==
    /\ pc = "decomposing"
    /\ Len(ops) = 0
    /\ IF "selection" \notin DOMAIN quregs
       THEN /\ raised' = "KeyError"
            /\ pc' = "raised"
            /\ UNCHANGED ops
       ELSE YieldOrRaise(YieldPrepareUniformSuperposition(sampler, quregs))
    /\ UNCHANGED <<call, sampler, other, cmp, quregs, regs, ip, branch>>

\* Lines 159-162.
Step1 ==
    /\ pc = "decomposing"
    /\ Len(ops) = 0
    /\ IF RaisesKeyError(quregs)
       THEN /\ raised' = "KeyError"
            /\ pc' = "raised"
            /\ UNCHANGED ops
       ELSE YieldOrRaise(decompose_from_registers(sampler, quregs)[1])
    /\ UNCHANGED <<call, sampler, other, cmp, quregs, regs, ip, branch>>

\* Line 163.
Step2 ==
    /\ pc = "decomposing"
    /\ Len(ops) = 1
    /\ YieldOrRaise(decompose_from_registers(sampler, quregs)[2])
    /\ UNCHANGED <<call, sampler, other, cmp, quregs, regs, ip, branch>>

\* Lines 164-169.
Step3 ==
    /\ pc = "decomposing"
    /\ Len(ops) = 2
    /\ YieldOrRaise(decompose_from_registers(sampler, quregs)[3])
    /\ UNCHANGED <<call, sampler, other, cmp, quregs, regs, ip, branch>>

\* Line 170.
Step4 ==
    /\ pc = "decomposing"
    /\ Len(ops) = 3
    /\ YieldOrRaise(decompose_from_registers(sampler, quregs)[4])
    /\ UNCHANGED <<call, sampler, other, cmp, quregs, regs, ip, branch>>

\* Line 171.
Step5 ==
    /\ pc = "decomposing"
    /\ Len(ops) = 4
    /\ YieldOrRaise(decompose_from_registers(sampler, quregs)[5])
    /\ UNCHANGED <<call, sampler, other, cmp, quregs, regs, ip, branch>>

\* The generator returns after its last yield.
Finish ==
    /\ pc = "decomposing"
    /\ Len(ops) = 5
    /\ pc' = "exhausted"
    /\ UNCHANGED <<call, sampler, raised, other, cmp, quregs, ops, regs, ip, branch>>

\* The host runs the yielded operations from the baseline state.
BeginRun ==
    /\ pc = "exhausted"
    /\ pc' = "running"
    /\ regs' = Baseline
    /\ ip' = 0
    /\ UNCHANGED <<call, sampler, raised, other, cmp, quregs, ops, branch>>

ApplyPrepareUniformSuperposition ==
    /\ pc = "running"
    /\ ip < Len(ops)
    /\ ops[ip + 1].gate = "PrepareUniformSuperposition"
    /\ \E l \in 0 .. ops[ip + 1].params[1] - 1 :
          /\ regs' = Exec(ops[ip + 1], regs, l, branch.s)
          /\ branch' = [branch EXCEPT !.l = l]
    /\ ip' = ip + 1
    /\ UNCHANGED <<pc, call, sampler, raised, other, cmp, quregs, ops>>

ApplyH ==
    /\ pc = "running"
    /\ ip < Len(ops)
    /\ ops[ip + 1].gate = "H"
    /\ \E s \in 0 .. (2 ^ ops[ip + 1].on[1].n) - 1 :
          /\ regs' = Exec(ops[ip + 1], regs, branch.l, s)
          /\ branch' = [branch EXCEPT !.s = s]
    /\ ip' = ip + 1
    /\ UNCHANGED <<pc, call, sampler, raised, other, cmp, quregs, ops>>

ApplyQROM ==
    /\ pc = "running"
    /\ ip < Len(ops)
    /\ ops[ip + 1].gate = "QROM"
    /\ regs' = Exec(ops[ip + 1], regs, branch.l, branch.s)
    /\ ip' = ip + 1
    /\ UNCHANGED <<pc, call, sampler, raised, other, cmp, quregs, ops, branch>>

ApplyLessThanEqual ==
    /\ pc = "running"
    /\ ip < Len(ops)
    /\ ops[ip + 1].gate = "LessThanEqual"
    /\ regs' = Exec(ops[ip + 1], regs, branch.l, branch.s)
    /\ ip' = ip + 1
    /\ UNCHANGED <<pc, call, sampler, raised, other, cmp, quregs, ops, branch>>

ApplyCSwap ==
    /\ pc = "running"
    /\ ip < Len(ops)
    /\ ops[ip + 1].gate = "CSwap"
    /\ regs' = Exec(ops[ip + 1], regs, branch.l, branch.s)
    /\ ip' = ip + 1
    /\ UNCHANGED <<pc, call, sampler, raised, other, cmp, quregs, ops, branch>>

\* All yielded operations have been executed.
EndRun ==
    /\ pc = "running"
    /\ ip = Len(ops)
    /\ pc' = "ran"
    /\ UNCHANGED <<call, sampler, raised, other, cmp, quregs, ops, regs, ip, branch>>

Next ==
    \/ CallFromLcuProbs
    \/ CallConstructor
    \/ RepeatFactoryCall
    \/ ConstructAgain
    \/ ConstructVariant
    \/ Compare
    \/ BeginDecompose
    \/ Step1
    \/ Step2
    \/ Step3
    \/ Step4
    \/ Step5
    \/ Finish
    \/ BeginRun
    \/ ApplyPrepareUniformSuperposition
    \/ ApplyH
    \/ ApplyQROM
    \/ ApplyLessThanEqual
    \/ ApplyCSwap
    \/ EndRun

Spec == Init /\ [][Next]_vars

\* ------------------------------------------------------------------- claims
\* ceil(log2(n)) for n >= 1: the least k with 2^k >= n.
CeilLog2(n) == CHOOSE k \in 0 .. n : 2 ^ k >= n /\ \A j \in 0 .. k - 1 : 2 ^ j < n

\* The number of outcomes L of a sampler.
Outcomes(self) == Length(self.alt)

\* The fixed-point units the table gives outcome m: its own keep[m] plus
\* 2^mu - keep[j] from every j that aliases m.
EncodedUnits(self, m) ==
    self.keep[m]
      + SumAll([j \in DOMAIN self.alt |->
                   IF self.alt[j] = m THEN (2 ^ self.mu) - self.keep[j] ELSE 0])

\* The bindings name all five registers with the widths the sampler declares.
BindingsMatch ==
    /\ DOMAIN quregs = RegNames
    /\ quregs["selection"] = CeilLog2(Outcomes(sampler))
    /\ quregs["alt"] = CeilLog2(Outcomes(sampler))
    /\ quregs["sigma_mu"] = sampler.mu
    /\ quregs["keep"] = sampler.mu
    /\ quregs["less_than_equal"] = 1

Decomposed == pc \in {"decomposing", "raised", "exhausted", "running", "ran"}

FiveGates == <<"PrepareUniformSuperposition", "H", "QROM", "LessThanEqual", "CSwap">>

\* C1: the generator yields the five operations in the fixed order uniform
\* superposition, H on sigma_mu, table lookup, comparison, controlled swap:
\* what has been yielded is always a prefix of that list, a generator that
\* has returned has yielded all five, and with matching bindings it does not
\* raise and each operation is wired to the registers the claim names.
C1_FiveStepsInOrder ==
    Decomposed =>
        /\ Len(ops) <= 5
        /\ \A k \in 1 .. Len(ops) : ops[k].gate = FiveGates[k]
        /\ pc \in {"exhausted", "running", "ran"} => Len(ops) = 5
        /\ BindingsMatch =>
              LET sel   == Qubits("selection", quregs["selection"])
                  sigma == Qubits("sigma_mu", quregs["sigma_mu"])
                  alt   == Qubits("alt", quregs["alt"])
                  keep  == Qubits("keep", quregs["keep"])
                  flag  == Qubits("less_than_equal", 1)
              IN  /\ pc # "raised"
                  /\ Len(ops) >= 1 =>
                        /\ ops[1].params = <<Outcomes(sampler)>>
                        /\ ops[1].on = <<sel>>
                  /\ Len(ops) >= 2 => ops[2].on = <<sigma>>
                  /\ Len(ops) >= 3 =>
                        /\ ops[3].params[1] = <<sampler.alt, sampler.keep>>
                        /\ ops[3].on = <<sel, alt, keep>>
                  /\ Len(ops) >= 4 => ops[4].on = <<keep, sigma, flag>>
                  /\ Len(ops) >= 5 => ops[5].on = <<flag, alt, sel>>

\* C1 witness: a sampler with three outcomes and mu = 2 whose generator has
\* returned after five yields.
C1_Witness ==
    /\ pc = "exhausted"
    /\ Len(ops) = 5
    /\ BindingsMatch
    /\ Outcomes(sampler) = 3
    /\ sampler.mu = 2

KeepBelow(bound) == \A i \in DOMAIN sampler.keep : sampler.keep[i] < bound

\* What the claim states of a finished run and of the branch counts.
BranchOutcomeAsClaimed ==
    LET L == Outcomes(sampler)
    IN  /\ pc = "ran" =>
              /\ branch.l \in 0 .. L - 1
              /\ branch.s \in 0 .. (2 ^ sampler.mu) - 1
              /\ regs["selection"] =
                    IF branch.s < sampler.keep[branch.l]
                    THEN branch.l ELSE sampler.alt[branch.l]
              /\ regs["selection"] \in 0 .. L - 1
        /\ pc = "exhausted" =>
              \A m \in 0 .. L - 1 :
                 Cardinality({ b \in (0 .. L - 1) \X (0 .. (2 ^ sampler.mu) - 1) :
                                 RunOps(ops, Baseline, b[1], b[2])["selection"] = m })
                   = EncodedUnits(sampler, m)

\* C2 (amended): for tables with alt[i] in [0, L) and keep[i] in [0, 2^mu),
\* the five steps run from the baseline state on the branch (l, s) end with
\* selection = l when s < keep[l] and alt[l] otherwise, selection stays in
\* [0, L), and the number of branches ending in m is keep[m] plus the sum of
\* 2^mu - keep[j] over the j with alt[j] = m.
C2_SelectionMarginal ==
    (pc \in {"exhausted", "ran"} /\ KeepBelow(2 ^ sampler.mu)) => BranchOutcomeAsClaimed

\* C2 as stated, with keep[i] allowed up to and including 2^mu.
C2_AsStated ==
    (pc \in {"exhausted", "ran"} /\ KeepBelow((2 ^ sampler.mu) + 1)) => BranchOutcomeAsClaimed

\* C2 witness: a finished run of a branch that took the alias of an outcome
\* which other branches keep.
C2_Witness ==
    /\ pc = "ran"
    /\ KeepBelow(2 ^ sampler.mu)
    /\ Outcomes(sampler) = 3
    /\ sampler.keep[branch.l] > 0
    /\ sampler.keep[branch.l] <= branch.s
    /\ sampler.alt[branch.l] # branch.l
    /\ regs["selection"] = sampler.alt[branch.l]

FromFactory == call # None /\ sampler # None

\* C3: the table of a sampler returned by from_lcu_probs conserves mass: the
\* units keep[l] + sum of (2^mu - keep[j]) over alt[j] = l, summed over all
\* outcomes l of the probability vector, are exactly L * 2^mu.
C3_MassConserved ==
    FromFactory =>
        LET L == Length(call.p)
        IN  SumAll([l \in 0 .. L - 1 |-> EncodedUnits(sampler, l)]) = L * (2 ^ sampler.mu)

\* C3 witness: a factory-built table over three outcomes in which an outcome
\* keeps part of its units and gives the rest to another one.
C3_Witness ==
    /\ FromFactory
    /\ pc = "built"
    /\ Length(call.p) = 3
    /\ \E i \in DOMAIN sampler.alt :
          /\ sampler.alt[i] # i
          /\ sampler.keep[i] > 0
          /\ sampler.keep[i] < 2 ^ sampler.mu

\* |p[l] - effective_probability(l)| <= epsilon, cleared of denominators:
\* p[l] = call.p[l] / Den, effective = units / (L * 2^mu), epsilon = e1 / e2.
WithinEpsilon(l) ==
    LET B == Length(call.p) * (2 ^ sampler.mu)
        diff == call.p[l] * B - Den * EncodedUnits(sampler, l)
    IN  (IF diff < 0 THEN -diff ELSE diff) * call.eps[2] <= call.eps[1] * Den * B

\* C4: for every outcome l of a factory-built table the effective probability
\* differs from the probability given by at most epsilon.
C4_BoundedError ==
    FromFactory => \A l \in DOMAIN call.p : WithinEpsilon(l)

\* C4 witness: a factory-built table whose effective probability for some
\* outcome is not the probability given (a rounding error occurred).
C4_Witness ==
    /\ FromFactory
    /\ pc = "built"
    /\ \E l \in DOMAIN call.p :
          call.p[l] * Length(call.p) * (2 ^ sampler.mu) # Den * EncodedUnits(sampler, l)

\* Field-by-field agreement of two samplers.
SameFields(a, b) ==
    /\ Len(a.selection_registers) = Len(b.selection_registers)
    /\ \A k \in 1 .. Len(a.selection_registers) :
          /\ a.selection_registers[k].name = b.selection_registers[k].name
          /\ a.selection_registers[k].bitsize = b.selection_registers[k].bitsize
          /\ a.selection_registers[k].iteration_length
                = b.selection_registers[k].iteration_length
    /\ DOMAIN a.alt = DOMAIN b.alt
    /\ \A i \in DOMAIN a.alt : a.alt[i] = b.alt[i]
    /\ DOMAIN a.keep = DOMAIN b.keep
    /\ \A i \in DOMAIN a.keep : a.keep[i] = b.keep[i]
    /\ a.mu = b.mu

\* C5: two samplers compare equal exactly when selection descriptor, alt, keep
\* and mu agree, and then their hashes agree; a sampler made by repeating the
\* factory call or by constructing from the same field values is equal to the
\* first, whatever form the selection register was passed in.
C5_ValueEquality ==
    pc = "compared" =>
        /\ cmp.eq <=> SameFields(sampler, other.obj)
        /\ SameFields(sampler, other.obj) => cmp.hash_eq
        /\ other.how \in {"repeat", "again"} => (cmp.eq /\ cmp.hash_eq)

\* C5 witness: the factory called twice with a three-entry vector, the two
\* results compared equal with equal hashes.
C5_Witness ==
    /\ pc = "compared"
    /\ other.how = "repeat"
    /\ Length(call.p) = 3
    /\ cmp.eq
    /\ cmp.hash_eq

\* C6: the sampler built from a length-L vector has one selection register of
\* ceil(log2(L)) bits and iteration length L, and selection_bitsize is that
\* width.
C6_SelectionWidth ==
    FromFactory =>
        LET L == Length(call.p)
        IN  /\ Len(sampler.selection_registers) = 1
            /\ sampler.selection_registers[1].bitsize = CeilLog2(L)
            /\ sampler.selection_registers[1].iteration_length = L
            /\ selection_bitsize(sampler) = CeilLog2(L)

\* C6 witness: a sampler over nine outcomes with a four-bit selection register.
C6_Witness ==
    /\ FromFactory
    /\ Length(call.p) = 9
    /\ selection_bitsize(sampler) = 4

JunkWidths(self) == [k \in DOMAIN junk_registers(self) |-> junk_registers(self)[k].bitsize]

JunkTotal(self) == SumAll([k \in 0 .. 3 |-> JunkWidths(self)[k + 1]])

JunkLayoutAsClaimed ==
    LET w == CeilLog2(Outcomes(sampler))
        junk == junk_registers(sampler)
    IN  /\ Len(junk) = 4
        /\ [k \in 1 .. 4 |-> junk[k].name] = <<"sigma_mu", "alt", "keep", "less_than_equal">>
        /\ JunkWidths(sampler) = <<sampler.mu, w, sampler.mu, 1>>
        /\ junk[2].bitsize = selection_bitsize(sampler)

\* C7 (amended): the junk registers are sigma_mu (mu bits), alt (ceil(log2(L))
\* bits, the selection width), keep (mu bits) and the one-bit flag, in this
\* order; they declare ceil(log2(L)) + 2*mu + 1 bits, and 2*ceil(log2(L)) +
\* 2*mu + 1 bits only together with the selection register.
C7_JunkLayout ==
    sampler # None =>
        LET w == CeilLog2(Outcomes(sampler))
        IN  /\ JunkLayoutAsClaimed
            /\ JunkTotal(sampler) = w + 2 * sampler.mu + 1
            /\ selection_bitsize(sampler) + JunkTotal(sampler) = 2 * w + 2 * sampler.mu + 1

\* C7 as stated: the junk registers alone declare 2*ceil(log2(L)) + 2*mu + 1 bits.
C7_AsStated ==
    sampler # None =>
        /\ JunkLayoutAsClaimed
        /\ JunkTotal(sampler) = 2 * CeilLog2(Outcomes(sampler)) + 2 * sampler.mu + 1

\* C7 witness: registers allocated from the declared layout of a sampler
\* over five outcomes.
C7_Witness ==
    /\ pc = "decomposing"
    /\ BindingsMatch
    /\ Outcomes(sampler) = 5
    /\ sampler.mu >= 1
    /\ quregs["sigma_mu"] + quregs["alt"] + quregs["keep"] + quregs["less_than_equal"]
          = 3 + 2 * sampler.mu + 1

RequiredMissing ==
    \E name \in {"selection", "alt", "less_than_equal"} : name \notin DOMAIN quregs

\* C8 (amended): when selection, alt or the flag register is missing from the
\* bindings, the generator raises KeyError before it yields anything; no
\* SizeMismatch is raised by decompose_from_registers for them.
C8_MissingRequiredRegister ==
    (Decomposed /\ RequiredMissing) =>
        /\ ops = <<>>
        /\ pc \in {"decomposing", "raised"}
        /\ pc = "raised" => raised = "KeyError"

\* C8 as stated: with bindings that do not match the declared widths the
\* decomposition fails with SizeMismatch and no operation is ever yielded.
C8_AsStated ==
    (Decomposed /\ ~BindingsMatch) =>
        /\ ops = <<>>
        /\ pc \in {"decomposing", "raised"}
        /\ pc = "raised" => raised = "SizeMismatch"

\* C8 witness: the generator raised KeyError for a missing alt register.
C8_Witness ==
    /\ pc = "raised"
    /\ raised = "KeyError"
    /\ "alt" \notin DOMAIN quregs
    /\ ops = <<>>

\* C9: a factory call with an empty vector, a negative entry or a sum other
\* than 1 fails with InvalidDistribution, one with epsilon <= 0 fails with
\* PrecisionError (one of the two when both are wrong), the error is what the
\* caller sees, and a failed call leaves no sampler.
C9_FactoryFailsAtomically ==
    call # None =>
        LET p == call.p
            badDist == \/ Length(p) = 0
                       \/ \E i \in DOMAIN p : p[i] < 0
                       \/ SumAll(p) # Den
            badEps  == call.eps[1] <= 0
        IN  /\ (badDist \/ badEps) =>
                  /\ pc = "failed"
                  /\ raised \in {"InvalidDistribution", "PrecisionError"}
            /\ (badDist /\ ~badEps) => raised = "InvalidDistribution"
            /\ (~badDist /\ badEps) => raised = "PrecisionError"
            /\ pc = "failed" => (sampler = None /\ raised # "none")
            /\ sampler # None => (pc # "failed" /\ ~badDist /\ ~badEps)

\* C9 witness: from_lcu_probs([0.5, 0.6], 1/8) failed with InvalidDistribution.
C9_Witness ==
    /\ pc = "failed"
    /\ call # None
    /\ Length(call.p) = 2
    /\ call.p[0] * 2 = Den
    /\ call.p[1] * 10 = Den * 6
    /\ call.eps = <<1, 8>>
    /\ raised = "InvalidDistribution"
    /\ sampler = None

\* C10: every entry of a factory-built table fits its register: alt[i] in
\* [0, L) and below 2^alternates_bitsize, keep[i] in [0, 2^mu) with mu the
\* keep width, and the table lookup leaves exactly alt[l] and keep[l] in the
\* alt and keep registers.
C10_TableEntriesInRange ==
    FromFactory =>
        LET L == Length(call.p)
        IN  /\ DOMAIN sampler.alt = 0 .. L - 1
            /\ DOMAIN sampler.keep = 0 .. L - 1
            /\ \A i \in 0 .. L - 1 :
                  /\ sampler.alt[i] \in 0 .. L - 1
                  /\ sampler.alt[i] < 2 ^ alternates_bitsize(sampler)
                  /\ sampler.keep[i] \in 0 .. (2 ^ sampler.mu) - 1
                  /\ sampler.keep[i] < 2 ^ keep_bitsize(sampler)
            /\ (pc = "running" /\ ip = 3) =>
                  /\ regs["alt"] = sampler.alt[branch.l]
                  /\ regs["keep"] = sampler.keep[branch.l]

\* C10 witness: the table built from the uniform vector [0.5, 0.5], looked up.
C10_Witness ==
    /\ FromFactory
    /\ Length(call.p) = 2
    /\ call.p[0] * 2 = Den
    /\ call.p[1] * 2 = Den
    /\ pc = "running"
    /\ ip = 3

====
